---------------------------- MODULE Spec2Model ----------------------------
(***************************************************************************)
(* Natural-language-to-SQL pipeline of the SQL assistant: the sanitizers   *)
(* (main.clean_sql_query, app.clean_sql_query), the executors              *)
(* (main.execute_sql_query, app.execute_sql, db_utils.execute_sql_query),  *)
(* the Flask handler process_query, the Chainlit handler on_message and    *)
(* the agent built by sql_chain.create_sql_agent.                          *)
(*                                                                         *)
(* A text is a sequence of characters, each a string.  The database and the *)
(* completion service are the environment: what they answer is chosen      *)
(* nondeterministically by the actions.                                    *)
(***************************************************************************)
EXTENDS Integers, Sequences, FiniteSets, TLC

(***************************************************************************)
(* Bounds of the model.                                                    *)
(***************************************************************************)
\* An input text is the concatenation of at most MaxChunks chunks.
MaxChunks == 3

(***************************************************************************)
(* Texts.                                                                  *)
(***************************************************************************)
\* The backtick character, which a TLA+ string literal cannot hold.
BACKTICK == "backtick"

SELECT == <<"S", "E", "L", "E", "C", "T">>

INSERT == <<"I", "N", "S", "E", "R", "T">>

UPDATE == <<"U", "P", "D", "A", "T", "E">>

DELETE == <<"D", "E", "L", "E", "T", "E">>

SEMI == <<";">>

DASHES == <<"-", "-">>

BLOCK_OPEN == <<"/", "*">>

BLOCK_CLOSE == <<"*", "/">>

FENCE == <<BACKTICK, BACKTICK, BACKTICK>>

FENCE_SQL == <<BACKTICK, BACKTICK, BACKTICK, "s", "q", "l">>

\* The pieces input texts are built from: keywords in both cases, the halves
\* of a keyword, a markdown fence, the comment markers, whitespace, the
\* statement terminator, the backtick and other content.
Chunks ==
    { SELECT,
      <<"s", "e", "l", "e", "c", "t">>,
      <<"S", "E", "L">>,
      <<"E", "C", "T">>,
      DELETE,
      FENCE_SQL,
      DASHES, BLOCK_OPEN, BLOCK_CLOSE,
      <<" ">>, <<"\n">>, SEMI, <<BACKTICK>>, <<"x">> }

RECURSIVE TextsUpTo(_)
TextsUpTo(n) ==
    IF n = 0 THEN { <<>> }
    ELSE LET shorter == TextsUpTo(n - 1)
         IN  shorter \cup { t \o c : t \in shorter, c \in Chunks }

Inputs == TextsUpTo(MaxChunks)

\* str.upper() on the characters of the alphabet.
UpperOf ==
    ("s" :> "S") @@ ("e" :> "E") @@ ("l" :> "L") @@ ("c" :> "C") @@
    ("t" :> "T") @@ ("q" :> "Q") @@ ("x" :> "X")

upper(t) ==
    [i \in 1..Len(t) |-> IF t[i] \in DOMAIN UpperOf THEN UpperOf[t[i]] ELSE t[i]]

\* The whitespace of str.strip() and of the regular expression class \s.
IsSpace(c) == c \in {" ", "\n"}

startswith(t, p) ==
    /\ Len(t) >= Len(p)
    /\ SubSeq(t, 1, Len(p)) = p

endswith(t, p) ==
    /\ Len(t) >= Len(p)
    /\ SubSeq(t, Len(t) - Len(p) + 1, Len(t)) = p

\* The 1-based indices at which p occurs in t.
Occurrences(t, p) ==
    { i \in 1..(Len(t) - Len(p) + 1) : SubSeq(t, i, i + Len(p) - 1) = p }

\* p in t
contains(t, p) == Occurrences(t, p) # {}

Min(S) == CHOOSE i \in S : \A j \in S : i <= j

\* t.find(p), 1-based; 0 when p does not occur.
find(t, p) == IF contains(t, p) THEN Min(Occurrences(t, p)) ELSE 0

Drop(t, n) == SubSeq(t, n + 1, Len(t))

RECURSIVE lstrip(_)
lstrip(t) ==
    IF t # <<>> /\ IsSpace(Head(t)) THEN lstrip(Tail(t)) ELSE t

RECURSIVE rstrip(_)
rstrip(t) ==
    IF t # <<>> /\ IsSpace(t[Len(t)]) THEN rstrip(SubSeq(t, 1, Len(t) - 1)) ELSE t

strip(t) == rstrip(lstrip(t))

\* re.sub with the pattern  --.*?$  and re.MULTILINE: from each pair of dashes
\* to the end of its line; the line break itself stays.
RECURSIVE remove_line_comments(_)
remove_line_comments(t) ==
    IF t = <<>> THEN <<>>
    ELSE IF startswith(t, DASHES)
         THEN LET eol == find(t, <<"\n">>)
              IN  IF eol = 0 THEN <<>>
                  ELSE remove_line_comments(Drop(t, eol - 1))
         ELSE <<Head(t)>> \o remove_line_comments(Tail(t))

\* re.sub with the pattern for a block comment and re.DOTALL: each comment
\* opener up to the nearest following closer; an opener never closed stays.
RECURSIVE remove_block_comments(_)
remove_block_comments(t) ==
    IF t = <<>> THEN <<>>
    ELSE IF startswith(t, BLOCK_OPEN) /\ contains(Drop(t, 2), BLOCK_CLOSE)
         THEN remove_block_comments(Drop(t, 2 + find(Drop(t, 2), BLOCK_CLOSE) + 1))
         ELSE <<Head(t)>> \o remove_block_comments(Tail(t))

\* query.replace of the backtick by the empty string
remove_backticks(t) == SelectSeq(t, LAMBDA c : c # BACKTICK)

\* Lines 144-148 of main.py (69-73 of app.py): comments, then backticks.
remove_comments_and_backticks(query) ==
    remove_backticks(remove_block_comments(remove_line_comments(query)))

(***************************************************************************)
(* Results and messages.  A message is a sequence of fragments; str(e) of   *)
(* a wrapped exception is the wrapper's prefix followed by the fragments    *)
(* of the exception it wraps.                                               *)
(***************************************************************************)
\* What a call gives back: a text it returns, or the message of what it raises.
Returned(text) == [ok |-> TRUE, text |-> text, err |-> <<>>]

Raised(msg) == [ok |-> FALSE, text |-> <<>>, err |-> msg]

ONLY_SELECT == "Only SELECT queries are allowed"

NO_VALID_SELECT == "No valid SELECT statement found in query"

INVALID_QUERY == "Invalid SQL query"

MULTIPLE_QUERIES == "Multiple SQL queries are not allowed"

(***************************************************************************)
(* The sanitizers: clean_sql_query of main.py and of app.py.                *)
(***************************************************************************)
\* The starts of the matches of re.search(r'SELECT\s+.*', query,
\* re.IGNORECASE | re.DOTALL): SELECT followed by at least one whitespace.
SelectMatches(query) ==
    { i \in Occurrences(upper(query), SELECT) :
        /\ i + Len(SELECT) <= Len(query)
        /\ IsSpace(query[i + Len(SELECT)]) }


\* restrict_to_select without the final raise: a text that holds no SELECT
\* is passed on.
restrict_to_select_no_raise(query) ==
    IF startswith(upper(strip(query)), SELECT) THEN Returned(query)
    ELSE IF SelectMatches(query) # {}
         THEN Returned(Drop(query, Min(SelectMatches(query)) - 1))
         ELSE IF contains(upper(query), SELECT)
              THEN Raised(<<NO_VALID_SELECT>>)
              ELSE Returned(query)

\* The SELECT check and extraction (main.py 151-160, app.py 76-85).
restrict_to_select(query) ==
    IF startswith(upper(strip(query)), SELECT) THEN Returned(query)
    ELSE IF contains(upper(query), SELECT)
         THEN IF SelectMatches(query) # {}
              THEN Returned(Drop(query, Min(SelectMatches(query)) - 1))
              ELSE Raised(<<NO_VALID_SELECT>>)
         ELSE Raised(<<ONLY_SELECT>>)


\* keep_first_statement without the cut at the first semicolon: only a
\* trailing semicolon is dropped.
keep_first_statement_trailing_only(query) ==
    LET q == strip(query)
    IN  IF endswith(q, SEMI) THEN SubSeq(q, 1, Len(q) - 1) ELSE q

\* main.py 163-170: strip, drop one trailing semicolon, keep what precedes
\* the first semicolon left.
keep_first_statement(query) ==
    LET q  == strip(query)
        q1 == IF endswith(q, SEMI) THEN SubSeq(q, 1, Len(q) - 1) ELSE q
    IN  IF contains(q1, SEMI)
        THEN strip(SubSeq(q1, 1, find(q1, SEMI) - 1))
        ELSE q1

\* app.py 88-90: strip, and append a semicolon unless the text ends with one.
ensure_trailing_semicolon(query) ==
    LET q == strip(query)
    IN  IF ~endswith(q, SEMI) THEN q \o SEMI ELSE q

main_clean_sql_query(query) ==
    LET r == restrict_to_select(remove_comments_and_backticks(query))
    IN  IF r.ok THEN Returned(keep_first_statement(r.text)) ELSE r

app_clean_sql_query(query) ==
    LET r == restrict_to_select(remove_comments_and_backticks(query))
    IN  IF r.ok THEN Returned(ensure_trailing_semicolon(r.text)) ELSE r

\* re.sub(r'```sql|```', '', generated_sql) of generate_sql_query.
RECURSIVE strip_code_fence(_)
strip_code_fence(t) ==
    IF t = <<>> THEN <<>>
    ELSE IF startswith(t, FENCE_SQL) THEN strip_code_fence(Drop(t, Len(FENCE_SQL)))
    ELSE IF startswith(t, FENCE) THEN strip_code_fence(Drop(t, Len(FENCE)))
    ELSE <<Head(t)>> \o strip_code_fence(Tail(t))

(***************************************************************************)
(* The database boundary.  An event is one interaction with the database   *)
(* driver or with the completion service; a call's events are listed in     *)
(* the order it issues them.                                                *)
(***************************************************************************)
Ev(kind) == [op |-> kind, text |-> <<>>]

CONNECT == Ev("connect")

CLOSE == Ev("close")

COMMIT == Ev("commit")

\* A catalog query (pg_catalog.pg_tables, information_schema.columns).
CATALOG == Ev("catalog")

\* A call of the completion service.
LLM == Ev("llm")

\* A generated statement handed to the driver.
Execute(text) == [op |-> "execute", text |-> text]

\* What the database does with a statement: it answers with a result set,
\* it runs the statement but there is no result set to fetch, it rejects
\* the statement (unknown relation, or another error), or no connection
\* can be made.
\* An unknown relation is reported by its plain name, or by its
\* schema-qualified name; an unknown column is another error.
DbOutcomes ==
    {"rows", "no_result_set", "undefined_table", "undefined_qualified",
     "undefined_column", "other_error", "unavailable"}

\* An error text is a sequence of fragments.  The fragments of the driver's
\* messages:
RELATION == "relation"

QUOTE == "\""

NOT_EXIST == "does not exist"

\* The names that are one word (\w+): the names of the tables, of a table
\* that does not exist, and of a schema.
TableNames == {"projects", "technologies", "users"}

Words == TableNames \cup {"foo", "public"}

\* The driver's message text for each failure.
UNDEFINED_TABLE_MSG == <<RELATION, QUOTE, "foo", QUOTE, NOT_EXIST>>

UNDEFINED_QUALIFIED_MSG == <<RELATION, QUOTE, "public", ".", "foo", QUOTE, NOT_EXIST>>

UNDEFINED_COLUMN_MSG == <<"column", QUOTE, "foo", QUOTE, NOT_EXIST>>

OTHER_DB_MSG == <<"syntax error at or near \"x\"">>

NO_RESULT_MSG == <<"no results to fetch">>

UNAVAILABLE_MSG == <<"could not connect to server">>

DbMessage(db) ==
    CASE db = "undefined_table"     -> UNDEFINED_TABLE_MSG
      [] db = "undefined_qualified" -> UNDEFINED_QUALIFIED_MSG
      [] db = "undefined_column"    -> UNDEFINED_COLUMN_MSG
      [] db = "other_error"         -> OTHER_DB_MSG
      [] db = "no_result_set"       -> NO_RESULT_MSG
      [] OTHER                      -> UNAVAILABLE_MSG

\* What an executor gives back: whether it returned, the message of what it
\* raised, and the events it issued.
Outcome(ok, err, events) == [ok |-> ok, err |-> err, events |-> events]

(***************************************************************************)
(* The executors.                                                          *)
(***************************************************************************)
\* main.py 257-263: the executor's own copy of the semicolon handling.
executor_first_statement(sql_query) ==
    LET q  == strip(sql_query)
        q1 == IF endswith(q, SEMI) THEN SubSeq(q, 1, Len(q) - 1) ELSE q
    IN  IF contains(q1, SEMI)
        THEN strip(SubSeq(q1, 1, find(q1, SEMI) - 1))
        ELSE q1


\* executor_accepts without the check.
executor_accepts_anything(sql_query) == TRUE

\* main.py 266: the executor's own SELECT check.
executor_accepts(sql_query) == startswith(upper(sql_query), SELECT)

MAIN_EXEC_PREFIX == "Error executing query: "

\* main.execute_sql_query: every exception, its own rejections included, is
\* re-raised as ValueError with the prefix; the with-block closes the
\* connection on every way out of it.
main_execute_sql_query(sql_query, db) ==
    IF sql_query = <<>>
    THEN Outcome(FALSE, <<MAIN_EXEC_PREFIX, INVALID_QUERY>>, <<>>)
    ELSE LET q == executor_first_statement(sql_query)
         IN  IF ~executor_accepts(q)
             THEN Outcome(FALSE, <<MAIN_EXEC_PREFIX, ONLY_SELECT>>, <<>>)
             ELSE IF db = "unavailable"
             THEN Outcome(FALSE, <<MAIN_EXEC_PREFIX>> \o DbMessage(db), <<>>)
             ELSE IF db = "rows"
             THEN Outcome(TRUE, <<>>, <<CONNECT, Execute(q), CLOSE>>)
             ELSE Outcome(FALSE, <<MAIN_EXEC_PREFIX>> \o DbMessage(db),
                          <<CONNECT, Execute(q), CLOSE>>)

\* db_utils.py 133-140: strip, drop one trailing semicolon, and refuse a text
\* that still holds a semicolon.
db_utils_validate(query) ==
    LET q  == strip(query)
        q1 == IF endswith(q, SEMI) THEN SubSeq(q, 1, Len(q) - 1) ELSE q
    IN  IF query = <<>> THEN Raised(<<INVALID_QUERY>>)
        ELSE IF contains(q1, SEMI) THEN Raised(<<MULTIPLE_QUERIES>>)
        ELSE Returned(q1)

\* db_utils.py 156: the statements after which the executor commits.
is_write_statement(query) ==
    \E kw \in {INSERT, UPDATE, DELETE} : startswith(upper(strip(query)), kw)

DB_UTILS_PREFIX == "Error executing SQL query: "

\* db_utils.execute_sql_query: the connection is closed on the last lines of
\* the try block only; the except clause re-raises without closing.
db_utils_execute_sql_query(query, db) ==
    LET v == db_utils_validate(query)
    IN  IF ~v.ok THEN Outcome(FALSE, <<DB_UTILS_PREFIX>> \o v.err, <<>>)
        ELSE IF db = "unavailable"
        THEN Outcome(FALSE,
                     <<DB_UTILS_PREFIX, "Failed to connect to the database: ">> \o DbMessage(db),
                     <<>>)
        ELSE IF db = "rows"
        THEN Outcome(TRUE, <<>>,
                     <<CONNECT, Execute(v.text)>>
                     \o (IF is_write_statement(v.text) THEN <<COMMIT>> ELSE <<>>)
                     \o <<CLOSE>>)
        ELSE Outcome(FALSE, <<DB_UTILS_PREFIX>> \o DbMessage(db),
                     <<CONNECT, Execute(v.text)>>)

\* A result set as the cursor gives it: the column names and the rows, a
\* value being a number or None.
NONE == "None"

Values == {"1", NONE}

MaxResultRows == 2

MaxResultColumns == 2

ResultSet(column_names, rows) == [column_names |-> column_names, rows |-> rows]

ResultSets ==
    UNION { { ResultSet([i \in 1..c |-> "col"], rows) :
                rows \in UNION { [1..n -> [1..c -> Values]] : n \in 0..MaxResultRows } } :
            c \in 1..MaxResultColumns }

NO_RESULT_SET == ResultSet(<<>>, <<>>)

\* db_utils.py 158: what replaces the rows after a write; the tool walks
\* through its only element, a text, character by character.
AFFECTED_ROWS == << <<"Q", "u", "e", "r", "y", " ", "a", "f", "f", "e", "c", "t", "e", "d",
                      " ", "1", " ", "r", "o", "w", "s">> >>

NO_RESULTS_FOUND == "No results found for this query."

\* format_value writing None as Python prints it.
format_value_as_printed(val) == val

\* sql_chain.py 52-55: one value of a row.
format_value(val) == IF val = NONE THEN "NULL" ELSE val

\* sql_chain.py 42-60: the header line, the separator line and one line for
\* each row; for no row at all, the no-results sentence alone.  A line is
\* the sequence of its cells.
format_result(result, column_names) ==
    IF result # <<>>
    THEN << column_names, [i \in 1..Len(column_names) |-> "---"] >>
            \o [r \in 1..Len(result) |->
                   [k \in 1..Len(result[r]) |-> format_value(result[r][k])]]
    ELSE << <<NO_RESULTS_FOUND>> >>

\* What the tool gives back: the text it returns, as lines, the rows it got
\* from the executor, and the executor's error and events.
ToolResult(text, rows, err, events) ==
    [ok |-> TRUE, text |-> text, rows |-> rows, err |-> err, events |-> events]

\* sql_chain.run_sql_query: the agent's tool; it formats what the executor
\* returned and turns every failure of the executor into a returned text.
run_sql_query(sql_query, db, rs) ==
    LET r == db_utils_execute_sql_query(sql_query, db)
        rows == IF is_write_statement(db_utils_validate(sql_query).text)
                THEN AFFECTED_ROWS ELSE rs.rows
    IN  IF r.ok
        THEN ToolResult(format_result(rows, rs.column_names), rows, <<>>, r.events)
        ELSE ToolResult(<< <<DB_UTILS_PREFIX>> \o r.err >>, <<>>,
                        <<DB_UTILS_PREFIX>> \o r.err, r.events)

\* app.execute_sql: sanitize, then run under a with-block; every exception
\* is returned as the error text.
execute_sql(query, db) ==
    LET c == app_clean_sql_query(query)
    IN  IF ~c.ok THEN Outcome(FALSE, c.err, <<>>)
        ELSE IF db = "unavailable" THEN Outcome(FALSE, DbMessage(db), <<>>)
        ELSE IF db = "rows"
        THEN Outcome(TRUE, <<>>, <<CONNECT, Execute(c.text), CLOSE>>)
        ELSE Outcome(FALSE, DbMessage(db), <<CONNECT, Execute(c.text), CLOSE>>)

(***************************************************************************)
(* Schema introspection.                                                    *)
(***************************************************************************)
\* What the catalog answers: tables, no table at all, a failing catalog
\* query, or no connection.
CatalogOutcomes == {"tables", "no_tables", "query_failed", "unavailable"}

SCHEMA_TEXT == "CREATE TABLE projects (\n  status text\n);"

EMPTY_TEXT == <<>>

MAIN_SCHEMA_ERROR == "Error getting database schema information."

DB_UTILS_NO_TABLES == "No tables found in the database."

DB_UTILS_SCHEMA_ERROR == "Error getting table information: "

Schema(text, events) == [text |-> text, events |-> events]

\* The catalog as main.py reads it: the non-system tables in the order the
\* table query lists them, or a failing table query, or no connection.
MaxTables == 2

TableLists ==
    { l \in UNION { [1..n -> TableNames] : n \in 0..MaxTables } :
        \A i, j \in 1..Len(l) : l[i] = l[j] => i = j }

Catalog(kind, tables) == [kind |-> kind, tables |-> tables]

Catalogs ==
    { Catalog("tables", l) : l \in TableLists }
        \cup { Catalog("query_failed", <<>>), Catalog("unavailable", <<>>) }

\* The catalogs a request's schema reads are drawn from.
CatalogSamples ==
    { Catalog("tables", <<>>), Catalog("tables", <<"projects", "users">>),
      Catalog("query_failed", <<>>), Catalog("unavailable", <<>>) }

\* The events of a with-block that runs the table query and then one column
\* query for each of n tables.
CatalogReads(n) == <<CONNECT, CATALOG>> \o [i \in 1..n |-> CATALOG] \o <<CLOSE>>

\* main.py 81-83: the description of one table, its columns standing for
\* what the column query answered.
CREATE_TABLE == "CREATE TABLE "

COLUMNS == " (\n  status text\n);"

table_description(table_name) == <<CREATE_TABLE, table_name, COLUMNS>>

\* str.join: the parts with the separator between them.
RECURSIVE join(_, _)
join(sep, parts) ==
    IF parts = <<>> THEN <<>>
    ELSE IF Len(parts) = 1 THEN Head(parts)
    ELSE Head(parts) \o <<sep>> \o join(sep, Tail(parts))

\* main.get_table_info: one catalog query for the tables and one per table
\* for its columns, under a with-block; every exception becomes the error
\* text.  No table is left out, and no table gives the empty text.
main_get_table_info(cat) ==
    CASE cat.kind = "unavailable"  -> Schema(<<MAIN_SCHEMA_ERROR>>, <<>>)
      [] cat.kind = "query_failed" -> Schema(<<MAIN_SCHEMA_ERROR>>, <<CONNECT, CATALOG, CLOSE>>)
      [] OTHER ->
           Schema(join("\n\n", [i \in 1..Len(cat.tables) |-> table_description(cat.tables[i])]),
                  CatalogReads(Len(cat.tables)))

\* The listing with no table hidden.
hidden_tables_none == {}

\* main.py 108: the tables kept out of the listing for the client.
hidden_tables == {"users"}

\* What get_tables_and_columns gives back: the listing, whether an
\* exception was caught on the way, and the events.
Listing(tables, raised, events) == [tables |-> tables, raised |-> raised, events |-> events]

\* main.get_tables_and_columns: the listing for the client, one entry per
\* table that is not hidden; the column query is not issued for a hidden
\* table; every exception gives the empty listing.
get_tables_and_columns(cat) ==
    LET shown == SelectSeq(cat.tables, LAMBDA t : t \notin hidden_tables)
    IN  CASE cat.kind = "unavailable"  -> Listing(<<>>, TRUE, <<>>)
          [] cat.kind = "query_failed" -> Listing(<<>>, TRUE, <<CONNECT, CATALOG, CLOSE>>)
          [] OTHER ->
               Listing([i \in 1..Len(shown) |->
                           [name |-> shown[i], columns |-> <<"status">>]],
                       FALSE, CatalogReads(Len(shown)))

\* db_utils.get_table_info: a first connection for the columns, closed after
\* the rows are formatted, and a second one for the foreign keys; the early
\* return and the except clause close nothing.
db_utils_get_table_info(cat, fk) ==
    CASE cat = "unavailable"  -> Schema(DB_UTILS_SCHEMA_ERROR, <<>>)
      [] cat = "query_failed" -> Schema(DB_UTILS_SCHEMA_ERROR, <<CONNECT, CATALOG>>)
      [] cat = "no_tables"    -> Schema(DB_UTILS_NO_TABLES, <<CONNECT, CATALOG>>)
      [] OTHER ->
         CASE fk = "unavailable"  ->
                Schema(DB_UTILS_SCHEMA_ERROR, <<CONNECT, CATALOG, CLOSE>>)
           [] fk = "query_failed" ->
                Schema(DB_UTILS_SCHEMA_ERROR, <<CONNECT, CATALOG, CLOSE, CONNECT, CATALOG>>)
           [] OTHER ->
                Schema(SCHEMA_TEXT, <<CONNECT, CATALOG, CLOSE, CONNECT, CATALOG, CLOSE>>)

(***************************************************************************)
(* The Flask pipeline of main.py.                                           *)
(***************************************************************************)
\* What the completion service answers: a candidate text, or an error.
Completion(ok, text) == [ok |-> ok, text |-> text]

Completions == { Completion(TRUE, t) : t \in Inputs } \cup { Completion(FALSE, <<>>) }

GENERATE_PREFIX == "Failed to generate SQL: "

LLM_ERROR_MSG == "Connection error."

\* main.py 189-222: the request sent to the completion service, the prompt
\* being the fixed instructions around the schema text and the question.
SYSTEM_MESSAGE == "You are an SQL expert specializing in PostgreSQL."

Payload(question, schema_text) ==
    [model |-> "gpt-4o", system |-> SYSTEM_MESSAGE, schema |-> schema_text,
     question |-> question]

\* What generate_sql_query gives back: the sanitized text, or the message of
\* the ValueError it raises, the request it sent and the events it issued.
Generated(ok, text, err, payload, events) ==
    [ok |-> ok, text |-> text, err |-> err, payload |-> payload, events |-> events]

\* generate_sql_query building the prompt from its table_info argument.
current_table_info_from_argument(table_info, cat) == Schema(table_info, <<>>)

\* main.py 186: the schema text that goes into the prompt is read from the
\* database at the call; the table_info argument is not used.
current_table_info(table_info, cat) == main_get_table_info(cat)

\* main.generate_sql_query: it reads the schema again, calls the completion
\* service once, strips the code fence and sanitizes; every exception is
\* re-raised as ValueError with the prefix.
generate_sql_query(query, table_info, cat, llm) ==
    LET current == current_table_info(table_info, cat)
        payload == Payload(query, current.text)
        events  == current.events \o <<LLM>>
        cleaned == main_clean_sql_query(strip(strip_code_fence(strip(llm.text))))
    IN  IF ~llm.ok
        THEN Generated(FALSE, <<>>, <<GENERATE_PREFIX, LLM_ERROR_MSG>>, payload, events)
        ELSE IF ~cleaned.ok
        THEN Generated(FALSE, <<>>, <<GENERATE_PREFIX>> \o cleaned.err, payload, events)
        ELSE Generated(TRUE, cleaned.text, <<>>, payload, events)

\* main.py 341: the places of the error text where the pattern
\* relation "(\w+)" does not exist matches.
TableMatches(error_msg) ==
    { i \in 1..(Len(error_msg) - 4) :
        /\ error_msg[i] = RELATION
        /\ error_msg[i + 1] = QUOTE
        /\ error_msg[i + 2] \in Words
        /\ error_msg[i + 3] = QUOTE
        /\ error_msg[i + 4] = NOT_EXIST }

\* main.py 338-342: the error text holds both phrases and the pattern
\* matches, so that it names a relation that does not exist.
names_missing_relation(error_msg) ==
    /\ \E i \in 1..Len(error_msg) : error_msg[i] = RELATION
    /\ \E i \in 1..Len(error_msg) : error_msg[i] = NOT_EXIST
    /\ TableMatches(error_msg) # {}

\* missing_table taking the fragment before the name.
missing_table_off_by_one(error_msg) == error_msg[Min(TableMatches(error_msg)) + 1]

\* main.py 343: the name the leftmost match holds.
missing_table(error_msg) == error_msg[Min(TableMatches(error_msg)) + 2]

NO_QUERY_MSG == "No query provided"

UNEXPECTED_MSG == "An unexpected error occurred"

\* main.py 356-358: the enriched message.
TABLE_MISSING_MSG(name) == <<"Table '", name, "' does not exist. ">>

AVAILABLE_TABLES_MSG(available_tables) ==
    <<"Available tables: ">>
        \o join(", ", [i \in 1..Len(available_tables) |-> <<available_tables[i]>>])

\* The response of a handler: the HTTP status (0 where there is none), the
\* SQL text it carries if it carries one, the error message, and the events
\* the handler issued.
Response(status, hasSql, sql, err, events) ==
    [status |-> status, hasSql |-> hasSql, sql |-> sql, err |-> err, events |-> events]

HTTP_OK == 200

HTTP_BAD_REQUEST == 400

HTTP_SERVER_ERROR == 500

\* classify_error asking the catalog for the table list whatever the error.
classify_error_always_asks(error_msg, hasSql, sql, cls, events) ==
    Response(HTTP_BAD_REQUEST, hasSql, sql, error_msg,
             events \o <<CONNECT, CATALOG, CLOSE>>)

\* classify_error with an exception of the table query left unanswered: no
\* status, no body.
classify_error_unanswered(error_msg, hasSql, sql, cls, events) ==
    IF names_missing_relation(error_msg) /\ cls.kind # "tables"
    THEN Response(0, FALSE, <<>>, <<>>, events)
    ELSE Response(HTTP_BAD_REQUEST, hasSql, sql, error_msg, events)

\* main.py 335-363: the handler of a ValueError of generation or execution.
\* It asks the catalog for the table list when the message names a missing
\* relation; an exception of that query leaves the handler and is answered
\* by the outer except clause.
classify_error(error_msg, hasSql, sql, cls, events) ==
    IF ~names_missing_relation(error_msg)
    THEN Response(HTTP_BAD_REQUEST, hasSql, sql, error_msg, events)
    ELSE CASE cls.kind = "unavailable" ->
                Response(HTTP_SERVER_ERROR, FALSE, <<>>, <<UNEXPECTED_MSG>>, events)
           [] cls.kind = "query_failed" ->
                Response(HTTP_SERVER_ERROR, FALSE, <<>>, <<UNEXPECTED_MSG>>,
                         events \o <<CONNECT, CATALOG, CLOSE>>)
           [] OTHER ->
                Response(HTTP_BAD_REQUEST, hasSql, sql,
                         TABLE_MISSING_MSG(missing_table(error_msg))
                             \o (IF cls.tables # <<>>
                                 THEN AVAILABLE_TABLES_MSG(cls.tables) ELSE <<>>),
                         events \o <<CONNECT, CATALOG, CLOSE>>)

(***************************************************************************)
(* The Chainlit handler of app.py.                                          *)
(***************************************************************************)
\* A read of the schema through db.get_table_info().
SCHEMA_READ == Ev("schema")

\* What that read answers: the description of the tables, the empty text of
\* a database without tables, or an exception.
SchemaReads == {"described", "empty", "failed"}

APP_SCHEMA_ERROR == "Error retrieving database schema."

\* app.get_table_schema: the schema text, or the error text for an
\* exception.
get_table_schema(read) ==
    CASE read = "described" -> SCHEMA_TEXT
      [] read = "empty"     -> ""
      [] OTHER              -> APP_SCHEMA_ERROR

\* The session before on_chat_start has stored a schema.
NO_SCHEMA == "none"

\* app.py 187: not schema, true of None and of the empty text.
schema_missing(schema) == schema \in {NO_SCHEMA, ""}

\* app.py 149-154: the tables of the welcome message, found in the schema
\* text, or the fallback list when none is found.
welcome_tables(schema) ==
    IF schema = SCHEMA_TEXT THEN <<"projects">> ELSE <<"technologies", "projects">>

\* The texts the chain generates in a chat turn.
MaxChatChunks == 2

ChatCompletions ==
    { Completion(TRUE, t) : t \in TextsUpTo(MaxChatChunks) } \cup { Completion(FALSE, <<>>) }

\* The shape of the DataFrame a statement gives: its rows, its columns, and
\* whether the second column has a numeric dtype.
MaxRows == 16

MaxColumns == 3

Shape(rows, columns, numeric) == [rows |-> rows, columns |-> columns, numeric |-> numeric]

Shapes ==
    { Shape(n, c, b) : n \in 0..MaxRows, c \in 1..MaxColumns, b \in BOOLEAN }
        \ { Shape(n, 1, TRUE) : n \in 0..MaxRows }

\* The limits of app.py 233.
CHART_COLUMNS == 2

CHART_MIN_ROWS == 1

CHART_MAX_ROWS == 15

\* chart_eligible with the upper limit left out.
chart_eligible_no_upper_limit(shape) ==
    shape.columns = CHART_COLUMNS /\ shape.rows > CHART_MIN_ROWS /\ shape.numeric

\* app.py 233-236: the result is a candidate for a bar chart.
chart_eligible(shape) ==
    /\ shape.columns = CHART_COLUMNS
    /\ shape.rows > CHART_MIN_ROWS
    /\ shape.rows <= CHART_MAX_ROWS
    /\ shape.numeric

\* A rendered table: its header row, its separator row and its data rows.
Table(header, separator, rows) == [header |-> header, separator |-> separator, rows |-> rows]

NO_TABLE == Table(0, 0, 0)

\* app.py 221-256: an empty DataFrame gives the no-result text and no table;
\* any other one is rendered by to_markdown, and gets a chart when it is
\* eligible and the figure can be built (an exception of the figure is
\* logged and dropped).
present(shape, figure_ok) ==
    IF shape.rows = 0
    THEN [table |-> NO_TABLE, eligible |-> FALSE, chart |-> FALSE]
    ELSE [table |-> Table(1, 1, shape.rows),
          eligible |-> chart_eligible(shape),
          chart |-> chart_eligible(shape) /\ figure_ok]

\* What a chat turn answers: the kind of message (failed for an exception,
\* error for a statement that could not be run, result otherwise), the
\* statement and the error it shows, the DataFrame's shape, what the
\* presenter made of it, and the events.
Reply(kind, sql, err, shape, shown, events) ==
    [kind |-> kind, sql |-> sql, err |-> err, shape |-> shape, shown |-> shown,
     events |-> events]

NO_SHAPE == Shape(0, 0, FALSE)

NOTHING_SHOWN == [table |-> NO_TABLE, eligible |-> FALSE, chart |-> FALSE]

\* app.on_message from line 196 on: one call of the chain, then execute_sql
\* on what it generated, then the presentation of the DataFrame; an
\* exception of the chain is answered by the except clause.
on_message(llm, db, shape, figure_ok) ==
    LET exec == execute_sql(llm.text, db)
    IN  IF ~llm.ok
        THEN Reply("failed", <<>>, <<LLM_ERROR_MSG>>, NO_SHAPE, NOTHING_SHOWN, <<LLM>>)
        ELSE IF ~exec.ok
        THEN Reply("error", llm.text, exec.err, NO_SHAPE, NOTHING_SHOWN,
                   <<LLM>> \o exec.events)
        ELSE Reply("result", llm.text, <<>>, shape, present(shape, figure_ok),
                   <<LLM>> \o exec.events)

(***************************************************************************)
(* The agent of sql_chain.create_sql_agent.                                 *)
(***************************************************************************)
\* AgentExecutor(max_iterations=5): the loop plans with one call of the
\* completion service per iteration and runs the tool the plan names.
max_iterations == 5

\* What one planning call answers: it fails, it finishes the turn, or it
\* asks for run_sql_query on a text.
Plan(kind, text) == [kind |-> kind, text |-> text]

\* The statements the planning call asks for: a query, a write, a query
\* followed by a write, and nothing.
AgentStatements == { SELECT, DELETE, SELECT \o SEMI \o DELETE, <<>> }

Plans ==
    { Plan("tool", t) : t \in AgentStatements }
        \cup { Plan("finish", <<>>), Plan("error", <<>>) }

(***************************************************************************)
(* The state.                                                               *)
(*   pc         where the program is: idle, inside the agent's loop, or at  *)
(*              the end of a call                                           *)
(*   op         the function or handler called last                         *)
(*   input      the text it was called with (for a handler: the candidate   *)
(*              text the completion service produced; for a reader of the   *)
(*              catalog: the tables of the database)                        *)
(*   result     what it returned or raised                                  *)
(*   trace      the events of the call, in order                            *)
(*   llmCalls   calls of the completion service in this turn                *)
(*   stmtExecs  generated statements handed to the driver in this turn      *)
(*   iterations the agent loop's counter                                    *)
(*   schema     the schema text the chat session holds                      *)
(*   fetches    the reads of the schema made for this chat session          *)
(***************************************************************************)
VARIABLES pc, op, input, result, trace, llmCalls, stmtExecs, iterations, schema, fetches

vars == <<pc, op, input, result, trace, llmCalls, stmtExecs, iterations, schema, fetches>>

Count(events, kind) ==
    Cardinality({ i \in 1..Len(events) : events[i].op = kind })

NoResult == [ok |-> FALSE]

Init ==
    /\ pc = "idle"
    /\ op = "none"
    /\ input = <<>>
    /\ result = NoResult
    /\ trace = <<>>
    /\ llmCalls = 0
    /\ stmtExecs = 0
    /\ iterations = 0
    /\ schema = NO_SCHEMA
    /\ fetches = 0

\* A call made from idle runs to its end: the state keeps what it was called
\* with, what it gave back and the events it issued.  (In the actions, a
\* value bound by \E over a singleton set is computed once.)
Finish(name, text, res, events) ==
    /\ pc' = "done"
    /\ op' = name
    /\ input' = text
    /\ result' = res
    /\ trace' = events
    /\ llmCalls' = Count(events, "llm")
    /\ stmtExecs' = Count(events, "execute")
    /\ iterations' = 0
    /\ UNCHANGED <<schema, fetches>>

CallMainClean ==
    /\ pc = "idle"
    /\ \E t \in Inputs :
          Finish("main.clean_sql_query", t, main_clean_sql_query(t), <<>>)

CallAppClean ==
    /\ pc = "idle"
    /\ \E t \in Inputs :
          Finish("app.clean_sql_query", t, app_clean_sql_query(t), <<>>)

CallMainExecute ==
    /\ pc = "idle"
    /\ \E t \in Inputs, db \in DbOutcomes :
       \E r \in { main_execute_sql_query(t, db) } :
          Finish("main.execute_sql_query", t, r, r.events)

CallDbUtilsExecute ==
    /\ pc = "idle"
    /\ \E t \in Inputs, db \in DbOutcomes :
       \E r \in { db_utils_execute_sql_query(t, db) } :
          Finish("db_utils.execute_sql_query", t, r, r.events)

CallAppExecute ==
    /\ pc = "idle"
    /\ \E t \in Inputs, db \in DbOutcomes :
       \E r \in { execute_sql(t, db) } :
          Finish("app.execute_sql", t, r, r.events)

CallMainGetTableInfo ==
    /\ pc = "idle"
    /\ \E cat \in Catalogs :
       \E r \in { main_get_table_info(cat) } :
          Finish("main.get_table_info", cat.tables, r, r.events)

\* GET /api/tables (main.get_db_tables calling get_tables_and_columns): the
\* database holds some tables, and the catalog answers or fails.
CallGetTablesAndColumns ==
    /\ pc = "idle"
    /\ \E l \in TableLists, kind \in {"tables", "query_failed", "unavailable"} :
       \E r \in { get_tables_and_columns(Catalog(kind, l)) } :
          Finish("main.get_tables_and_columns", l, r, r.events)

CallDbUtilsGetTableInfo ==
    /\ pc = "idle"
    /\ \E cat \in CatalogOutcomes, fk \in CatalogOutcomes :
       \E r \in { db_utils_get_table_info(cat, fk) } :
          Finish("db_utils.get_table_info", <<>>, r, r.events)

\* The question of a request.
QUESTION == "How many projects are in development?"

\* The bodies a request to /api/query arrives with: one with a question, one
\* without, and one that request.get_json() cannot read.
RequestBodies == {"query", "no_query", "unreadable"}

\* A response together with how the handler came to it: the place the
\* request failed at, if it failed (none, request, generation, execution,
\* classifier or response), the message of the ValueError that was caught,
\* and the table list the classifier read.
At(response, failed, raised, tables) ==
    [status |-> response.status, hasSql |-> response.hasSql, sql |-> response.sql,
     err |-> response.err, events |-> response.events, failed |-> failed,
     raised |-> raised, tables |-> tables]

\* main.py 335-363 in a request: the answer to a ValueError of generation
\* or execution.  The catalog is asked only when the message names a missing
\* relation.
AnswerValueError(candidate, error_msg, hasSql, sql, events) ==
    LET failed == IF hasSql THEN "execution" ELSE "generation"
    IN  IF ~names_missing_relation(error_msg)
        THEN \E r \in { classify_error(error_msg, hasSql, sql, Catalog("tables", <<>>), events) } :
                Finish("main.process_query", candidate, At(r, failed, error_msg, <<>>), r.events)
        ELSE \E cls \in Catalogs :
             \E r \in { classify_error(error_msg, hasSql, sql, cls, events) } :
                Finish("main.process_query", candidate,
                       At(r, IF r.status = HTTP_SERVER_ERROR THEN "classifier" ELSE failed,
                          error_msg, cls.tables),
                       r.events)

\* One request to /api/query (main.process_query): the body cannot be read,
\* or the question is missing and the request is refused, or the schema is
\* read, the statement is generated and, when generation succeeded, executed
\* and the rows are put into the JSON response.
ProcessQuery ==
    /\ pc = "idle"
    /\ \E body \in RequestBodies :
          CASE body = "unreadable" ->
                 Finish("main.process_query", <<>>,
                        At(Response(HTTP_SERVER_ERROR, FALSE, <<>>, <<UNEXPECTED_MSG>>, <<>>),
                           "request", <<>>, <<>>), <<>>)
            [] body = "no_query" ->
                 Finish("main.process_query", <<>>,
                        At(Response(HTTP_BAD_REQUEST, FALSE, <<>>, <<NO_QUERY_MSG>>, <<>>),
                           "request", <<>>, <<>>), <<>>)
            [] OTHER ->
               \E cat1 \in CatalogSamples, cat2 \in CatalogSamples, llm \in Completions :
               \E table_info \in { main_get_table_info(cat1) } :
               \E gen \in { generate_sql_query(QUESTION, table_info.text, cat2, llm) } :
               \E before \in { table_info.events \o gen.events } :
                  IF ~gen.ok
                  THEN AnswerValueError(llm.text, gen.err, FALSE, <<>>, before)
                  ELSE \E db \in DbOutcomes :
                       \E exec \in { main_execute_sql_query(gen.text, db) } :
                       \E events \in { before \o exec.events } :
                          IF ~exec.ok
                          THEN AnswerValueError(llm.text, exec.err, TRUE, gen.text, events)
                          ELSE \E serializable \in BOOLEAN :
                               Finish("main.process_query", llm.text,
                                      IF serializable
                                      THEN At(Response(HTTP_OK, TRUE, gen.text, <<>>, events),
                                              "none", <<>>, <<>>)
                                      ELSE At(Response(HTTP_SERVER_ERROR, FALSE, <<>>,
                                                       <<UNEXPECTED_MSG>>, events),
                                              "response", <<>>, <<>>),
                                      events)

\* The arguments and the answers two calls of generate_sql_query are made
\* with.
Questions == {QUESTION, "Which tables are there?"}

GenerateCompletions ==
    { Completion(TRUE, SELECT), Completion(TRUE, DELETE), Completion(FALSE, <<>>) }

\* A call of main.generate_sql_query with a question and a schema text, in
\* whatever state the database is.
CallGenerate ==
    /\ pc = "idle"
    /\ \E query \in Questions, arg \in CatalogSamples, cat \in Catalogs,
          llm \in GenerateCompletions :
       \E table_info \in { main_get_table_info(arg).text } :
       \E r \in { generate_sql_query(query, table_info, cat, llm) } :
          /\ input' = <<query, table_info>>
          /\ result' = [first |-> r, second |-> r, calls |-> 1]
          /\ trace' = r.events
          /\ llmCalls' = Count(r.events, "llm")
    /\ pc' = "generated"
    /\ op' = "main.generate_sql_query"
    /\ UNCHANGED <<stmtExecs, iterations, schema, fetches>>

\* A second call with the same two arguments, the database being in
\* whatever state it is by then.
CallGenerateAgain ==
    /\ pc = "generated"
    /\ \E cat \in Catalogs, llm \in GenerateCompletions :
       \E r \in { generate_sql_query(input[1], input[2], cat, llm) } :
          /\ result' = [first |-> result.first, second |-> r, calls |-> 2]
          /\ trace' = r.events
          /\ llmCalls' = Count(r.events, "llm")
    /\ pc' = "done"
    /\ UNCHANGED <<op, input, stmtExecs, iterations, schema, fetches>>

\* The reads of the schema one chat session is followed for.
MaxFetches == 3

\* A chat session opens (app.on_chat_start): the schema is read and stored
\* in the session, whatever the read gave, and the welcome message is sent.
OnChatStart ==
    /\ pc = "idle"
    /\ \E read \in SchemaReads :
          /\ schema' = get_table_schema(read)
          /\ result' = [ok |-> TRUE, tables |-> welcome_tables(get_table_schema(read))]
    /\ fetches' = 1
    /\ pc' = "chat_done"
    /\ op' = "app.on_chat_start"
    /\ input' = <<>>
    /\ trace' = <<SCHEMA_READ>>
    /\ UNCHANGED <<llmCalls, stmtExecs, iterations>>

\* One chat message (app.on_message): the schema is read again when the
\* session holds none, then the statement is generated, run and presented.
OnMessage ==
    /\ pc = "chat"
    /\ \E llm \in ChatCompletions, db \in DbOutcomes :
       \E shape \in (IF llm.ok /\ db = "rows" /\ app_clean_sql_query(llm.text).ok
                      THEN Shapes ELSE {NO_SHAPE}) :
       \E figure_ok \in (IF chart_eligible(shape) THEN BOOLEAN ELSE {TRUE}) :
       \E r \in { on_message(llm, db, shape, figure_ok) } :
          /\ IF schema_missing(schema)
             THEN /\ fetches < MaxFetches
                  /\ \E read \in SchemaReads : schema' = get_table_schema(read)
                  /\ fetches' = fetches + 1
                  /\ trace' = <<SCHEMA_READ>> \o r.events
             ELSE /\ UNCHANGED <<schema, fetches>>
                  /\ trace' = r.events
          /\ result' = r
          /\ input' = llm.text
          /\ llmCalls' = Count(r.events, "llm")
          /\ stmtExecs' = Count(r.events, "execute")
    /\ pc' = "chat_done"
    /\ op' = "app.on_message"
    /\ UNCHANGED iterations

\* The handler is over; the session waits for the next message.
NextTurn ==
    /\ pc = "chat_done"
    /\ pc' = "chat"
    /\ op' = "none"
    /\ input' = <<>>
    /\ result' = NoResult
    /\ trace' = <<>>
    /\ llmCalls' = 0
    /\ stmtExecs' = 0
    /\ UNCHANGED <<iterations, schema, fetches>>

\* The chat session ends and what it held is dropped.
EndSession ==
    /\ pc = "chat"
    /\ pc' = "idle"
    /\ schema' = NO_SCHEMA
    /\ fetches' = 0
    /\ UNCHANGED <<op, input, result, trace, llmCalls, stmtExecs, iterations>>

\* agent_executor.invoke: the turn starts with the loop counter at zero.
AgentInvoke ==
    /\ pc = "idle"
    /\ pc' = "agent_plan"
    /\ op' = "agent"
    /\ input' = <<>>
    /\ result' = NoResult
    /\ trace' = <<>>
    /\ llmCalls' = 0
    /\ stmtExecs' = 0
    /\ iterations' = 0
    /\ UNCHANGED <<schema, fetches>>

\* The head of the loop: past max_iterations the executor stops without
\* another call; otherwise one planning call, which fails, finishes the
\* turn or names the statement to run.
AgentPlan ==
    /\ pc = "agent_plan"
    /\ UNCHANGED <<op, result, trace, stmtExecs, iterations, schema, fetches>>
    /\ IF iterations >= max_iterations
       THEN /\ pc' = "done"
            /\ UNCHANGED <<input, llmCalls>>
       ELSE \E plan \in Plans :
               /\ llmCalls' = llmCalls + 1
               /\ input' = plan.text
               /\ pc' = IF plan.kind = "tool" THEN "agent_tool" ELSE "done"

\* The tool call of the iteration: run_sql_query on the planned text.
AgentTool ==
    /\ pc = "agent_tool"
    /\ \E db \in DbOutcomes :
       \E rs \in (IF db = "rows" THEN ResultSets ELSE {NO_RESULT_SET}) :
       \E r \in { run_sql_query(input, db, rs) } :
          /\ result' = r
          /\ trace' = r.events
          /\ stmtExecs' = stmtExecs + Count(r.events, "execute")
    /\ pc' = "agent_observed"
    /\ UNCHANGED <<op, input, llmCalls, iterations, schema, fetches>>

\* The end of the iteration: the observation goes to the scratchpad and the
\* counter is incremented.
AgentNextIteration ==
    /\ pc = "agent_observed"
    /\ pc' = "agent_plan"
    /\ iterations' = iterations + 1
    /\ input' = <<>>
    /\ result' = NoResult
    /\ trace' = <<>>
    /\ UNCHANGED <<op, llmCalls, stmtExecs, schema, fetches>>

\* The call or the turn is over; the next one starts from idle.
Return ==
    /\ pc = "done"
    /\ pc' = "idle"
    /\ op' = "none"
    /\ input' = <<>>
    /\ result' = NoResult
    /\ trace' = <<>>
    /\ llmCalls' = 0
    /\ stmtExecs' = 0
    /\ iterations' = 0
    /\ UNCHANGED <<schema, fetches>>

Next ==
    \/ CallMainClean
    \/ CallAppClean
    \/ CallMainExecute
    \/ CallDbUtilsExecute
    \/ CallAppExecute
    \/ CallMainGetTableInfo
    \/ CallGetTablesAndColumns
    \/ CallDbUtilsGetTableInfo
    \/ ProcessQuery
    \/ CallGenerate
    \/ CallGenerateAgain
    \/ OnChatStart
    \/ OnMessage
    \/ NextTurn
    \/ EndSession
    \/ AgentInvoke
    \/ AgentPlan
    \/ AgentTool
    \/ AgentNextIteration
    \/ Return

Spec == Init /\ [][Next]_vars

(***************************************************************************)
(* What the claims speak of.                                                *)
(***************************************************************************)
\* The text begins with SELECT, in any case.
BeginsWithSelect(t) == startswith(upper(t), SELECT)

\* Something other than whitespace follows a semicolon of the text.
HasSecondStatement(t) ==
    \E i \in 1..Len(t) : t[i] = ";" /\ strip(Drop(t, i)) # <<>>

HasCommentMarker(t) ==
    contains(t, DASHES) \/ contains(t, BLOCK_OPEN) \/ contains(t, BLOCK_CLOSE)

HasBacktick(t) == contains(t, <<BACKTICK>>)

Sanitizers == {"main.clean_sql_query", "app.clean_sql_query"}

\* The text after comment and backtick removal and SELECT extraction, the
\* one the semicolon handling works on, stripped.
PostExtraction(t) == strip(restrict_to_select(remove_comments_and_backticks(t)).text)

\* The text up to its first semicolon.
BeforeFirstSemicolon(t) ==
    IF contains(t, SEMI) THEN SubSeq(t, 1, find(t, SEMI) - 1) ELSE t

\* The events that follow the call of the completion service.
AfterCompletion(events) ==
    IF Count(events, "llm") = 0 THEN <<>>
    ELSE Drop(events, Min({ i \in 1..Len(events) : events[i].op = "llm" }))

\* What generate_sql_query hands to the sanitizer for a candidate text.
Candidate(t) == strip(strip_code_fence(strip(t)))

(***************************************************************************)
(* C1.  On every execution path the text handed to the database driver is   *)
(* a single statement that begins with SELECT, and no write is committed.   *)
(* The code does not keep this: db_utils.execute_sql_query has no SELECT    *)
(* check and commits writes, app.execute_sql passes a second statement on.  *)
(***************************************************************************)
C1_DriverGetsOneSelect ==
    \A i \in 1..Len(trace) :
        /\ trace[i].op = "execute" =>
              /\ BeginsWithSelect(trace[i].text)
              /\ ~HasSecondStatement(trace[i].text)
        /\ trace[i].op # "commit"

(***************************************************************************)
(* C2.  Whenever main.clean_sql_query returns, the text it returns begins   *)
(* with SELECT, holds no semicolon, and is the post-extraction text up to   *)
(* its first semicolon (trailing whitespace aside).                         *)
(***************************************************************************)
C2_MainCleanReturnsOneSelect ==
    (op = "main.clean_sql_query" /\ result.ok) =>
        /\ BeginsWithSelect(result.text)
        /\ ~contains(result.text, SEMI)
        /\ LET kept == BeforeFirstSemicolon(PostExtraction(input))
           IN  result.text \in {kept, strip(kept)}

\* A second statement after a semicolon was discarded.
C2_Witness ==
    /\ op = "main.clean_sql_query"
    /\ result.ok
    /\ HasSecondStatement(PostExtraction(input))
    /\ result.text = SELECT

(***************************************************************************)
(* C3.  For a text that holds SELECT, the text a sanitizer returns holds    *)
(* no comment marker and no backtick.  The code does not keep this: a       *)
(* comment opener that is never closed, and a closer without opener, stay.  *)
(***************************************************************************)
C3_NoCommentMarkerNoBacktick ==
    (op \in Sanitizers /\ result.ok /\ contains(upper(input), SELECT)) =>
        /\ ~HasCommentMarker(result.text)
        /\ ~HasBacktick(result.text)

(***************************************************************************)
(* C4.  As claimed: a text in which SELECT occurs nowhere makes the         *)
(* sanitizer fail.  It does not when backticks or a comment separate the    *)
(* letters, since the search runs after their removal.                      *)
(***************************************************************************)
C4_NoSelectInRawTextFails ==
    (op \in Sanitizers /\ ~contains(upper(input), SELECT)) => ~result.ok

(***************************************************************************)
(* C4, amended.  A text in which SELECT occurs nowhere once comments and    *)
(* backticks are removed makes the sanitizer fail with the only-SELECT      *)
(* error, and no SQL text is returned.                                      *)
(***************************************************************************)
C4_NoSelectAfterRemovalFails ==
    (op \in Sanitizers
        /\ ~contains(upper(remove_comments_and_backticks(input)), SELECT)) =>
        /\ ~result.ok
        /\ result.err = <<ONLY_SELECT>>
        /\ result.text = <<>>

\* A text with both halves of the keyword, but not next to each other even
\* after the removal, was refused.
C4_Witness ==
    /\ op \in Sanitizers
    /\ contains(input, <<"S", "E", "L">>)
    /\ contains(input, <<"E", "C", "T">>)
    /\ ~contains(upper(remove_comments_and_backticks(input)), SELECT)
    /\ ~result.ok

(***************************************************************************)
(* C5.  Sanitizing is idempotent: sanitizing what main.clean_sql_query      *)
(* returned returns the same text.  The code does not keep this: the        *)
(* whitespace before a removed trailing semicolon stays and the next pass   *)
(* strips it.                                                               *)
(***************************************************************************)
C5_Idempotent ==
    (op = "main.clean_sql_query" /\ result.ok) =>
        main_clean_sql_query(result.text) = Returned(result.text)

(***************************************************************************)
(* C6.  No sanitizer appends a semicolon: a returned text never ends with   *)
(* one.  The code does not keep this: app.clean_sql_query appends one.      *)
(***************************************************************************)
C6_NoTrailingSemicolon ==
    (op \in Sanitizers /\ result.ok) => ~endswith(result.text, SEMI)

(***************************************************************************)
(* C7.  main.execute_sql_query re-checks its input: a text that, trimmed    *)
(* and cut at its first semicolon, does not begin with SELECT is rejected   *)
(* with an error, no connection is acquired and no statement is executed.   *)
(***************************************************************************)
C7_ExecutorRejectsNonSelect ==
    (op = "main.execute_sql_query"
        /\ ~BeginsWithSelect(BeforeFirstSemicolon(strip(input)))) =>
        /\ ~result.ok
        /\ result.err \in { <<MAIN_EXEC_PREFIX, ONLY_SELECT>>,
                            <<MAIN_EXEC_PREFIX, INVALID_QUERY>> }
        /\ trace = <<>>

\* A write statement was rejected without touching the database.
C7_Witness ==
    /\ op = "main.execute_sql_query"
    /\ startswith(input, DELETE)
    /\ result.err = <<MAIN_EXEC_PREFIX, ONLY_SELECT>>
    /\ trace = <<>>

(***************************************************************************)
(* C8.  In the request pipelines, when sanitizing the candidate text fails  *)
(* the executor is not invoked and nothing is asked of the database after   *)
(* the candidate was received: the failure is answered at once.             *)
(***************************************************************************)
C8_NoDatabaseCallAfterSanitizerFailure ==
    /\ (op = "main.process_query"
           /\ Count(trace, "llm") > 0
           /\ ~main_clean_sql_query(Candidate(input)).ok) =>
           /\ AfterCompletion(trace) = <<>>
           /\ Count(trace, "execute") = 0
           /\ result.status = HTTP_BAD_REQUEST
    /\ (op = "app.on_message" /\ ~app_clean_sql_query(input).ok) =>
           /\ AfterCompletion(trace) = <<>>
           /\ Count(trace, "llm") = 1
           /\ Count(trace, "execute") = 0

\* A candidate that is one write statement, semicolon included, was refused
\* by the sanitizer and answered.
C8_Witness ==
    /\ op = "main.process_query"
    /\ startswith(input, DELETE)
    /\ endswith(input, SEMI)
    /\ result.err = <<GENERATE_PREFIX, ONLY_SELECT>>
    /\ result.status = HTTP_BAD_REQUEST
    /\ Count(trace, "llm") = 1

(***************************************************************************)
(* C9.  Every connection that a call acquires is released before the call   *)
(* returns or raises.  The code does not keep this: the functions of        *)
(* db_utils.py close the connection on their last lines only.               *)
(***************************************************************************)
C9_ConnectionsReleased ==
    pc \in {"done", "agent_observed"} =>
        Count(trace, "connect") = Count(trace, "close")

(***************************************************************************)
(* C10.  No retry: within one turn the completion service is called at      *)
(* most once and at most one statement is executed.  The code does not      *)
(* keep this: the agent's loop plans and executes again, up to              *)
(* max_iterations times.                                                    *)
(***************************************************************************)
C10_NoRetry ==
    /\ llmCalls <= 1
    /\ stmtExecs <= 1

(***************************************************************************)
(* C11.  Every outcome of main.process_query is a JSON body with a status:  *)
(* 400 with the no-query message when the question is missing, 400 with an  *)
(* error message when generation, sanitization or execution fails, 500      *)
(* with the generic message for any other exception, an exception of the    *)
(* classifier's table query included, and 200 otherwise.                    *)
(***************************************************************************)
C11_EveryOutcomeIsStructured ==
    op = "main.process_query" =>
        /\ result.status \in {HTTP_OK, HTTP_BAD_REQUEST, HTTP_SERVER_ERROR}
        /\ (result.status = HTTP_OK) = (result.failed = "none")
        /\ result.status = HTTP_OK => result.err = <<>> /\ result.hasSql
        /\ result.status = HTTP_BAD_REQUEST =>
              /\ result.err # <<>>
              /\ result.failed \in {"request", "generation", "execution"}
              /\ result.failed = "request" => result.err = <<NO_QUERY_MSG>>
        /\ result.status = HTTP_SERVER_ERROR =>
              /\ result.err = <<UNEXPECTED_MSG>>
              /\ result.failed \in {"request", "classifier", "response"}
        /\ result.failed \in {"generation", "execution"} =>
              result.status = HTTP_BAD_REQUEST

\* The statement named an unknown relation and the classifier's table query
\* failed: the request was answered with 500 and the generic message.
C11_Witness ==
    /\ op = "main.process_query"
    /\ result.failed = "classifier"
    /\ result.status = HTTP_SERVER_ERROR
    /\ result.err = <<UNEXPECTED_MSG>>
    /\ Count(trace, "execute") = 1
    /\ Len(trace) >= 3
    /\ SubSeq(trace, Len(trace) - 2, Len(trace)) = <<CONNECT, CATALOG, CLOSE>>

(***************************************************************************)
(* C12.  When sanitizing the candidate text fails, the failure returned to  *)
(* the caller carries the candidate text the model produced.  The code      *)
(* does not keep this: generate_sql_query raises before process_query       *)
(* binds sql_query, so the response carries no SQL text at all.             *)
(***************************************************************************)
C12_SanitizerFailureCarriesCandidate ==
    (op = "main.process_query"
        /\ result.failed = "generation"
        /\ result.err # <<GENERATE_PREFIX, LLM_ERROR_MSG>>
        /\ input # <<>>) =>
        /\ result.hasSql
        /\ result.sql \in {input, Candidate(input)}

\* The one-word names that an error text reports as relations that do not
\* exist.
NamedRelations(msg) ==
    { w \in Words :
        \E i \in 1..Len(msg) :
            /\ i + 4 <= Len(msg)
            /\ SubSeq(msg, i, i + 4) = <<RELATION, QUOTE, w, QUOTE, NOT_EXIST>> }

\* The table names with a comma and a space between them.
RECURSIVE CommaSeparated(_)
CommaSeparated(names) ==
    IF names = <<>> THEN <<>>
    ELSE IF Len(names) = 1 THEN names
    ELSE <<Head(names), ", ">> \o CommaSeparated(Tail(names))

(***************************************************************************)
(* C13.  When the error text reports relation "<name>" does not exist and   *)
(* the live table list is not empty, the message returned is Table '<name>' *)
(* does not exist. Available tables: <the list, comma-separated>; when no   *)
(* table name can be extracted from the error text, the message returned    *)
(* is the error text, unmodified.                                           *)
(***************************************************************************)
C13_ClassifiedMessage ==
    (op = "main.process_query" /\ result.failed \in {"generation", "execution"}) =>
        /\ \A name \in NamedRelations(result.raised) :
              result.tables # <<>> =>
                 result.err = <<"Table '", name, "' does not exist. ", "Available tables: ">>
                                  \o CommaSeparated(result.tables)
        /\ NamedRelations(result.raised) = {} => result.err = result.raised

\* An unknown relation was reported while two tables exist.
C13_Witness ==
    /\ op = "main.process_query"
    /\ result.raised = <<MAIN_EXEC_PREFIX, RELATION, QUOTE, "foo", QUOTE, NOT_EXIST>>
    /\ result.tables = <<"projects", "technologies">>
    /\ result.err = <<"Table '", "foo", "' does not exist. ", "Available tables: ",
                      "projects", ", ", "technologies">>
    /\ result.status = HTTP_BAD_REQUEST

\* A schema-qualified name cannot be extracted: the text was passed through.
C13_WitnessUnmodified ==
    /\ op = "main.process_query"
    /\ result.raised = <<MAIN_EXEC_PREFIX>> \o UNDEFINED_QUALIFIED_MSG
    /\ result.err = result.raised

\* The elements of a sequence.
Range(seq) == { seq[i] : i \in 1..Len(seq) }

\* The schema text describes the table.
Describes(text, table) ==
    \E i \in 1..Len(text) :
        i < Len(text) /\ text[i] = CREATE_TABLE /\ text[i + 1] = table

\* The hidden-table set the claims speak of.
HiddenTableSet == {"users"}

(***************************************************************************)
(* C14.  Whatever tables the database holds, the listing that               *)
(* get_tables_and_columns returns, when the catalog answers, has one entry  *)
(* of name and columns for each table that is not hidden and no entry for   *)
(* a hidden table (after a caught exception the listing is empty); the      *)
(* schema text of main.get_table_info is not filtered and describes the     *)
(* hidden tables too.                                                       *)
(***************************************************************************)
C14_ListingHidesAndSchemaDoesNot ==
    /\ op = "main.get_tables_and_columns" =>
          /\ \A i \in 1..Len(result.tables) :
                /\ result.tables[i].name \notin HiddenTableSet
                /\ result.tables[i].name \in Range(input)
                /\ DOMAIN result.tables[i] = {"name", "columns"}
          /\ ~result.raised =>
                \A t \in Range(input) \ HiddenTableSet :
                    Cardinality({ i \in 1..Len(result.tables) :
                                    result.tables[i].name = t }) = 1
          /\ result.raised => result.tables = <<>>
    /\ (op = "main.get_table_info" /\ result.text # <<MAIN_SCHEMA_ERROR>>) =>
          \A t \in Range(input) : Describes(result.text, t)

\* Of a visible and a hidden table, the visible one alone was listed.
C14_Witness ==
    /\ op = "main.get_tables_and_columns"
    /\ input = <<"users", "projects">>
    /\ ~result.raised
    /\ Len(result.tables) = 1
    /\ result.tables[1].name = "projects"

\* The schema text for the same tables describes the hidden one.
C14_WitnessSchema ==
    /\ op = "main.get_table_info"
    /\ input = <<"users", "projects">>
    /\ Describes(result.text, "users")

\* The names an enriched error message lists as available tables.
ListedAsAvailable(err) ==
    { err[j] : j \in { j \in 1..Len(err) :
                          \E i \in 1..(j - 1) : err[i] = "Available tables: " } }
        \ {", "}

(***************************************************************************)
(* C15.  The list of available tables that process_query puts in an         *)
(* enriched error message never holds a hidden table.  The code does not    *)
(* keep this: the handler reads pg_tables itself and lists every table.     *)
(***************************************************************************)
C15_NoHiddenTableInErrorFeedback ==
    op = "main.process_query" =>
        ListedAsAvailable(result.err) \cap HiddenTableSet = {}

(***************************************************************************)
(* C16.  A result is chart-eligible exactly when it has two columns, more   *)
(* than one and at most fifteen rows, and a numeric second column: 2 and    *)
(* 15 rows are eligible, 0, 1 and 16 rows are not, nor is a result of one   *)
(* or of three columns, nor one whose second column is not numeric.  A      *)
(* chart is attached to eligible results only.                              *)
(***************************************************************************)
C16_ChartEligibility ==
    (op = "app.on_message" /\ result.kind = "result") =>
        /\ result.shown.eligible =
              (/\ result.shape.columns = 2
               /\ 1 < result.shape.rows
               /\ result.shape.rows <= 15
               /\ result.shape.numeric)
        /\ result.shape.rows \in {0, 1, 16} => ~result.shown.eligible
        /\ result.shape.columns \in {1, 3} => ~result.shown.eligible
        /\ (result.shape.rows \in {2, 15} /\ result.shape.columns = 2
               /\ result.shape.numeric) => result.shown.eligible
        /\ result.shown.chart => result.shown.eligible

\* Fifteen rows of two columns, the second numeric: eligible, with a chart.
C16_Witness ==
    /\ op = "app.on_message"
    /\ result.kind = "result"
    /\ result.shape = Shape(15, 2, TRUE)
    /\ result.shown.eligible
    /\ result.shown.chart

\* Sixteen such rows: not eligible.
C16_WitnessSixteen ==
    /\ op = "app.on_message"
    /\ result.kind = "result"
    /\ result.shape = Shape(16, 2, TRUE)
    /\ ~result.shown.eligible

(***************************************************************************)
(* C17.  For every result set, one of zero rows included, the presenter     *)
(* gives a table of a header row, a separator row and one row for each      *)
(* result row, with NULL for every None.  The code does not keep this: for  *)
(* zero rows the agent's tool returns a sentence and the chat handler shows *)
(* a sentence, in place of a table.                                         *)
(***************************************************************************)
C17_AlwaysATable ==
    /\ (op = "agent" /\ pc = "agent_observed" /\ result.err = <<>>
           /\ ~is_write_statement(input)) =>
          /\ Len(result.text) = 2 + Len(result.rows)
          /\ \A r \in 1..Len(result.rows) :
                /\ Len(result.text[2 + r]) = Len(result.rows[r])
                /\ \A k \in 1..Len(result.rows[r]) :
                      result.text[2 + r][k] =
                          IF result.rows[r][k] = NONE THEN "NULL" ELSE result.rows[r][k]
    /\ (op = "app.on_message" /\ result.kind = "result") =>
          result.shown.table = Table(1, 1, result.shape.rows)

\* With rows, the tool does give the table, None written as NULL.
C17_RowsAreRendered ==
    (op = "agent" /\ pc = "agent_observed" /\ result.err = <<>>
        /\ ~is_write_statement(input) /\ result.rows # <<>>) =>
        /\ Len(result.text) = 2 + Len(result.rows)
        /\ \A r \in 1..Len(result.rows) :
              \A k \in 1..Len(result.rows[r]) :
                  result.text[2 + r][k] =
                      IF result.rows[r][k] = NONE THEN "NULL" ELSE result.rows[r][k]

(***************************************************************************)
(* C18.  Schema introspection never returns the empty text: for a database  *)
(* without tables each get_table_info returns a no-tables sentence, and     *)
(* for a failing catalog query a degraded schema text.  The code does not   *)
(* keep this: main.get_table_info joins the descriptions of no table and    *)
(* returns the empty text.                                                  *)
(***************************************************************************)
C18_SchemaTextNeverEmpty ==
    /\ op = "main.get_table_info" => result.text # <<>>
    /\ op = "db_utils.get_table_info" => result.text # ""

\* What does hold: db_utils.get_table_info has the sentence, and both turn a
\* failure of the catalog into an error text.
C18_DbUtilsHasSentinel ==
    /\ op = "db_utils.get_table_info" =>
          result.text \in {SCHEMA_TEXT, DB_UTILS_NO_TABLES, DB_UTILS_SCHEMA_ERROR}
    /\ (op = "main.get_table_info" /\ Count(trace, "catalog") = 0) =>
          result.text = <<MAIN_SCHEMA_ERROR>>

(***************************************************************************)
(* C19.  Within one chat session the schema is read from the database at    *)
(* most once: after the first read no later turn reads it again, whatever   *)
(* text the read returned.  The code does not keep this: the empty text of  *)
(* a database without tables is stored, taken for no schema by the next     *)
(* turn, and read again.                                                    *)
(***************************************************************************)
C19_SchemaFetchedOnce ==
    /\ fetches <= 1
    /\ op = "app.on_message" => Count(trace, "schema") = 0

(***************************************************************************)
(* C20.  Two calls of generate_sql_query with the same question and the     *)
(* same schema text send the same request to the completion service,        *)
(* whatever the state of the database at each call, and building the        *)
(* prompt asks nothing of the database.  The code does not keep this: the   *)
(* function reads the schema from the database at each call and puts that   *)
(* text, not its argument, into the prompt.                                 *)
(***************************************************************************)
C20_PromptIsFunctionOfArguments ==
    op = "main.generate_sql_query" =>
        /\ result.first.payload = result.second.payload
        /\ result.second.payload.schema = input[2]
        /\ Count(trace, "connect") = 0
        /\ Count(trace, "catalog") = 0

\* The same arguments, two states of the database, two different requests.
C20_SameArgumentsSamePayload ==
    (op = "main.generate_sql_query" /\ result.calls = 2) =>
        result.first.payload = result.second.payload

\* The text from its first occurrence of SELECT onward, in any case.
FromFirstSelect(t) == Drop(t, find(upper(t), SELECT) - 1)

(***************************************************************************)
(* C21.  A text that, comments and backticks removed and trimmed, does not  *)
(* begin with SELECT but holds SELECT somewhere is accepted, and what goes  *)
(* into the semicolon handling is the text from the first occurrence of     *)
(* SELECT onward; the sanitizer fails only when SELECT occurs nowhere.  The *)
(* code does not keep this: its pattern wants whitespace after SELECT, so   *)
(* an occurrence followed by anything else is passed over, and when no      *)
(* occurrence is followed by whitespace the sanitizer fails.                *)
(***************************************************************************)
C21_CutAtFirstSelect ==
    op \in Sanitizers =>
        LET q == remove_comments_and_backticks(input)
        IN  /\ (~BeginsWithSelect(strip(q)) /\ contains(upper(q), SELECT)) =>
                  /\ result.ok
                  /\ result.text =
                        IF op = "main.clean_sql_query"
                        THEN keep_first_statement(FromFirstSelect(q))
                        ELSE ensure_trailing_semicolon(FromFirstSelect(q))
            /\ ~result.ok => ~contains(upper(q), SELECT)

\* What does hold: when the first occurrence of SELECT is followed by
\* whitespace, it is the cut point.
C21_CutAtFirstSelectBeforeWhitespace ==
    op \in Sanitizers =>
        LET q == remove_comments_and_backticks(input)
            i == find(upper(q), SELECT)
        IN  (~BeginsWithSelect(strip(q)) /\ i > 0 /\ i + Len(SELECT) <= Len(q)
                /\ IsSpace(q[i + Len(SELECT)])) =>
                /\ result.ok
                /\ result.text =
                      IF op = "main.clean_sql_query"
                      THEN keep_first_statement(FromFirstSelect(q))
                      ELSE ensure_trailing_semicolon(FromFirstSelect(q))

=============================================================================
